---------------------------- MODULE Spec2Model ----------------------------
(***************************************************************************)
(* Model of catkin_ws/src/kinematics_demo/src/singularity.cpp: the         *)
(* velocity-resolved IK loop of main(), the moving local target            *)
(* (class LocalTarget), the interactive-marker feedback handler            *)
(* (visualization::processFeedback) and the two damped pseudo-inverse      *)
(* routines of namespace kinematics.                                       *)
(*                                                                         *)
(* A C++ double is modelled by an extended rational <<n, d>>: d > 0 is the *)
(* finite value n/d in lowest terms, <<1,0>> is +inf, <<-1,0>> is -inf and *)
(* <<0,0>> is NaN.  The operators below follow IEEE-754 for the cases the  *)
(* program can distinguish (x/0, 0/0, 0*inf, inf-inf, comparisons with     *)
(* NaN are false); rounding and signed zeros are not modelled.             *)
(***************************************************************************)
EXTENDS Integers, Sequences, FiniteSets, TLC

-----------------------------------------------------------------------------
(* Extended rational arithmetic (the model of double).                     *)

Abs(i) == IF i < 0 THEN -i ELSE i

Sign(i) == IF i < 0 THEN -1 ELSE IF i > 0 THEN 1 ELSE 0

RECURSIVE GCD(_, _)
GCD(a, b) == IF b = 0 THEN a ELSE GCD(b, a % b)

Norm(n, d) ==
    IF d = 0 THEN <<Sign(n), 0>>
    ELSE LET g == GCD(Abs(n), Abs(d))
         IN  IF d < 0 THEN <<(-n) \div g, (-d) \div g>>
                      ELSE <<n \div g, d \div g>>

R(n, d) == Norm(n, d)

Zero == <<0, 1>>
One == <<1, 1>>
NaN == <<0, 0>>
PosInf == <<1, 0>>
NegInf == <<-1, 0>>

IsNaN(a) == a = NaN
IsFinite(a) == a[2] > 0

\* Sums and products reduce by common factors before they multiply.
RAdd(a, b) ==
    IF a[2] = 0 /\ b[2] = 0
    THEN IF a = b THEN a ELSE NaN
    ELSE IF a[2] = 0 THEN a
    ELSE IF b[2] = 0 THEN b
    ELSE LET g == GCD(a[2], b[2])
         IN  Norm(a[1] * (b[2] \div g) + b[1] * (a[2] \div g), (a[2] \div g) * b[2])

RNeg(a) == <<-a[1], a[2]>>

RSub(a, b) == RAdd(a, RNeg(b))

RMul(a, b) ==
    IF a[2] = 0 \/ b[2] = 0 \/ a[1] = 0 \/ b[1] = 0
    THEN Norm(a[1] * b[1], a[2] * b[2])
    ELSE LET g1 == GCD(Abs(a[1]), b[2])
             g2 == GCD(Abs(b[1]), a[2])
         IN  <<(a[1] \div g1) * (b[1] \div g2), (a[2] \div g2) * (b[2] \div g1)>>

RRecip(a) == IF a[1] < 0 THEN Norm(-a[2], -a[1]) ELSE Norm(a[2], a[1])

RDiv(a, b) == RMul(a, RRecip(b))

\* a < b as the C++ operator< on doubles: false when either side is NaN.
RLt(a, b) ==
    /\ ~IsNaN(a)
    /\ ~IsNaN(b)
    /\ IF a[2] = 0 \/ b[2] = 0
       THEN a[1] * b[2] < b[1] * a[2] \/ (a[2] = 0 /\ b[2] = 0 /\ a[1] < b[1])
       ELSE LET g == GCD(a[2], b[2])
            IN  a[1] * (b[2] \div g) < b[1] * (a[2] \div g)

RGt(a, b) == RLt(b, a)

RGe(a, b) == ~IsNaN(a) /\ ~IsNaN(b) /\ ~RLt(a, b)

\* fabs
RAbs(a) == <<Abs(a[1]), a[2]>>

\* std::max(a, b) == (a < b) ? b : a
RMax(a, b) == IF RLt(a, b) THEN b ELSE a

\* An eagerly built sequence <<F(1), ..., F(n)>>.
RECURSIVE BuildSeq(_, _)
BuildSeq(F(_), n) == IF n = 0 THEN <<>> ELSE Append(BuildSeq(F, n - 1), F(n))

RECURSIVE ISqrtNewton(_, _)
ISqrtNewton(x, g) ==
    LET h == (g + x \div g) \div 2
    IN  IF h >= g THEN g ELSE ISqrtNewton(x, h)

\* floor(sqrt(x)) of a natural number
ISqrt(x) == IF x < 2 THEN x ELSE ISqrtNewton(x, x)

IsSquare(x) == ISqrt(x) * ISqrt(x) = x

\* Resolution of the square root of a rational that is no perfect square.
SqrtScale == 100

\* sqrt: exact on a rational whose numerator and denominator are squares,
\* rounded down to 1/SqrtScale otherwise; NaN on a negative or NaN argument.
RSqrt(a) ==
    IF IsNaN(a) \/ a[1] < 0 THEN NaN
    ELSE IF a[2] = 0 THEN PosInf
    ELSE IF IsSquare(a[1]) /\ IsSquare(a[2]) THEN Norm(ISqrt(a[1]), ISqrt(a[2]))
    ELSE Norm(ISqrt((a[1] * SqrtScale * SqrtScale) \div a[2]), SqrtScale)


-----------------------------------------------------------------------------
(* Dense matrices (Eigen::MatrixXd) and vectors (Eigen::VectorXd): a       *)
(* matrix is the sequence of its rows.                                     *)

Rows(M) == Len(M)

Cols(M) == IF Len(M) = 0 THEN 0 ELSE Len(M[1])

RECURSIVE DotFrom(_, _, _)
DotFrom(u, v, k) ==
    IF k = 0 THEN Zero ELSE RAdd(DotFrom(u, v, k - 1), RMul(u[k], v[k]))

Dot(u, v) == DotFrom(u, v, Len(u))

Column(M, j) == BuildSeq(LAMBDA i : M[i][j], Rows(M))

Transpose(M) == BuildSeq(LAMBDA j : Column(M, j), Cols(M))

MatMul(A, B) ==
    LET Bt == Transpose(B)
    IN  BuildSeq(LAMBDA i : BuildSeq(LAMBDA j : Dot(A[i], Bt[j]), Len(Bt)), Rows(A))

MatVec(A, v) == BuildSeq(LAMBDA i : Dot(A[i], v), Rows(A))

MatAdd(A, B) ==
    BuildSeq(LAMBDA i : BuildSeq(LAMBDA j : RAdd(A[i][j], B[i][j]), Cols(A)), Rows(A))

ScalarMul(c, A) ==
    BuildSeq(LAMBDA i : BuildSeq(LAMBDA j : RMul(c, A[i][j]), Cols(A)), Rows(A))

Identity(n) ==
    BuildSeq(LAMBDA i : BuildSeq(LAMBDA j : IF i = j THEN One ELSE Zero, n), n)

\* Sv.asDiagonal()
AsDiagonal(v) ==
    BuildSeq(LAMBDA i : BuildSeq(LAMBDA j : IF i = j THEN v[i] ELSE Zero, Len(v)), Len(v))

VecScale(c, v) == BuildSeq(LAMBDA j : RMul(c, v[j]), Len(v))

VecSub(u, v) == BuildSeq(LAMBDA j : RSub(u[j], v[j]), Len(u))

MatFinite(M) == \A i \in 1..Rows(M) : \A j \in 1..Cols(M) : IsFinite(M[i][j])

\* The row partial pivoting picks for column k: the first row, from k down,
\* whose entry is not smaller in magnitude than any other.
PivotRow(M, k) ==
    LET n == Rows(M)
        best == {r \in k..n : \A q \in k..n : ~RLt(RAbs(M[r][k]), RAbs(M[q][k]))}
    IN  IF best = {} THEN k ELSE CHOOSE r \in best : \A q \in best : r <= q

\* One Gauss-Jordan step on the augmented matrix: pivot, scale, eliminate.
\* A zero pivot is divided by as the floating-point code does (inf, NaN).
SwapRows(M, k, p) ==
    BuildSeq(LAMBDA i : IF i = k THEN M[p] ELSE IF i = p THEN M[k] ELSE M[i], Rows(M))

EliminateRows(S, k, prow) ==
    BuildSeq(LAMBDA i : IF i = k THEN prow ELSE VecSub(S[i], VecScale(S[i][k], prow)),
             Rows(S))

ScaleAndEliminate(S, k) == EliminateRows(S, k, VecScale(RRecip(S[k][k]), S[k]))

Eliminate(M, k) == ScaleAndEliminate(SwapRows(M, k, PivotRow(M, k)), k)

RECURSIVE GaussJordan(_, _)
GaussJordan(M, k) ==
    IF k > Rows(M) THEN M ELSE GaussJordan(Eliminate(M, k), k + 1)

\* MatrixXd::inverse() of a square matrix; entries are inf or NaN when the
\* matrix is singular.
Inverse(A) ==
    LET n == Rows(A)
        aug == BuildSeq(LAMBDA i : A[i] \o Identity(n)[i], n)
        red == GaussJordan(aug, 1)
    IN  BuildSeq(LAMBDA i : SubSeq(red[i], n + 1, 2 * n), n)

-----------------------------------------------------------------------------
(* kinematics: the two damped pseudo-inverse routines.                     *)

\* Eigen::JacobiSVD is a library routine: its result is taken from a table
\* of thin decompositions jacb = U * diag(Sv) * V^T with orthonormal columns
\* and singular values that are non-negative and in decreasing order.
I2 == Identity(2)
Rot2 == << <<R(3, 5), R(-4, 5)>>, <<R(4, 5), R(3, 5)>> >>
Swap2 == << <<Zero, One>>, <<One, Zero>> >>
Col2 == << <<R(3, 5)>>, <<R(4, 5)>> >>
I1 == Identity(1)

SingularValues2 ==
    { <<R(2, 1), One>>, <<One, One>>, <<One, R(1, 2)>>, <<One, Zero>>, <<Zero, Zero>> }

SingularValues1 == { <<R(5, 1)>>, <<Zero>> }

Decompositions ==
    [U : {I2, Rot2, Swap2}, Sv : SingularValues2, V : {I2, Rot2}]
    \cup [U : {Col2}, Sv : SingularValues1, V : {I1}]
    \cup [U : {I1}, Sv : SingularValues1, V : {Col2}]

Compose(svd) == MatMul(MatMul(svd.U, AsDiagonal(svd.Sv)), Transpose(svd.V))

JacobiSVD(jacb) == CHOOSE svd \in Decompositions : Compose(svd) = jacb

calculateDampedPseudoInverse_without_SVD(jacb, eps, lambda) ==
    LET jacb_transpose == Transpose(jacb)
    IN  IF Rows(jacb) >= Cols(jacb)
        THEN LET lhs == MatAdd(MatMul(jacb_transpose, jacb),
                               ScalarMul(RMul(lambda, lambda), Identity(Cols(jacb))))
             IN  MatMul(Inverse(lhs), jacb_transpose)
        ELSE LET rhs == MatAdd(MatMul(jacb, jacb_transpose),
                               ScalarMul(RMul(lambda, lambda), Identity(Rows(jacb))))
             IN  MatMul(jacb_transpose, Inverse(rhs))

\* inv_Sv with the threshold test fabs(Sv(i)) >= eps.
inv_Sv_inclusive(Sv_i, eps, lambda) ==
    IF RGe(RAbs(Sv_i), eps)
    THEN RDiv(One, Sv_i)
    ELSE RDiv(Sv_i, RAdd(RMul(Sv_i, Sv_i), RMul(lambda, lambda)))

\* The reciprocal of one singular value (the body of the loop over Sv).
inv_Sv(Sv_i, eps, lambda) ==
    IF RGt(RAbs(Sv_i), eps)
    THEN RDiv(One, Sv_i)
    ELSE RDiv(Sv_i, RAdd(RMul(Sv_i, Sv_i), RMul(lambda, lambda)))

\* calculateDampedPseudoInverse_with_SVD damping every singular value.
calculateDampedPseudoInverse_with_SVD_all_damped(jacb, eps, lambda) ==
    LET svd == JacobiSVD(jacb)
        inv == BuildSeq(LAMBDA i : RDiv(svd.Sv[i], RAdd(RMul(svd.Sv[i], svd.Sv[i]),
                                                        RMul(lambda, lambda))),
                        Len(svd.Sv))
    IN  MatMul(MatMul(svd.V, AsDiagonal(inv)), Transpose(svd.U))

calculateDampedPseudoInverse_with_SVD(jacb, eps, lambda) ==
    LET svd == JacobiSVD(jacb)
        inv == BuildSeq(LAMBDA i : inv_Sv(svd.Sv[i], eps, lambda), Len(svd.Sv))
    IN  MatMul(MatMul(svd.V, AsDiagonal(inv)), Transpose(svd.U))

-----------------------------------------------------------------------------
(* geometry_msgs::Pose: <<position.x, position.y, position.z,              *)
(* orientation.x, orientation.y, orientation.z, orientation.w>>.           *)

MkPose(x, y, z, qx, qy, qz, qw) == <<x, y, z, qx, qy, qz, qw>>

Position(p) == <<p[1], p[2], p[3]>>

Orientation(p) == <<p[4], p[5], p[6], p[7]>>

\* A value-initialised geometry_msgs::Pose (the globals before main runs).
ZeroPose == MkPose(Zero, Zero, Zero, Zero, Zero, Zero, Zero)

PoseHasNaN(p) == \E i \in 1..7 : ~IsFinite(p[i])

\* Trigonometry in degrees.  sin is Bhaskara's rational approximation on
\* [0, 180], exact at 0, 30, 90, 150 and 180; acos is its inverse on [0, 1]
\* (the argument is clamped to [-1, 1] as tf2Acos does, and is never
\* negative here).
Bhaskara(m) == RDiv(RMul(R(4, 1), m), RSub(R(40500, 1), m))

SinDeg(a) == Bhaskara(RMul(a, RSub(R(180, 1), a)))

AcosUnit(c) == RMul(R(180, 1), RSqrt(RDiv(RSub(One, c), RAdd(R(4, 1), c))))

AcosDeg(x) == AcosUnit(IF RGt(x, One) THEN One ELSE x)

QuatDot(a, b) == Dot(a, b)

\* tf2::Quaternion::angleShortestPath(q) / 2, in degrees
HalfAngleShortestPath(a, b) ==
    AcosDeg(RDiv(RAbs(QuatDot(a, b)), RSqrt(RMul(QuatDot(a, a), QuatDot(b, b)))))

\* (q1 * s0 + q2 * s1) * d, component by component
slerpBlend(q1, q2, s0, s1, d) ==
    BuildSeq(LAMBDA i : RMul(RAdd(RMul(q1[i], s0), RMul(q2[i], s1)), d), 4)

slerpTheta(q1, q2, t, theta) ==
    IF theta # Zero
    THEN slerpBlend(q1,
                    IF RLt(QuatDot(q1, q2), Zero) THEN VecScale(R(-1, 1), q2) ELSE q2,
                    SinDeg(RMul(RSub(One, t), theta)),
                    SinDeg(RMul(t, theta)),
                    RDiv(One, SinDeg(theta)))
    ELSE q1

\* tf2::slerp(q1, q2, t), i.e. q1.slerp(q2, t)
slerp(q1, q2, t) == slerpTheta(q1, q2, t, HalfAngleShortestPath(q1, q2))

\* q[i] * q[j] * s
QuatTerm(q, i, j, s) == RMul(RMul(q[i], q[j]), s)

\* tf::Matrix3x3::setRotation(q): the rotation matrix of a quaternion
\* <<x, y, z, w>>, s being 2 / length2.
setRotation(q, s) ==
    << <<RSub(One, RAdd(QuatTerm(q, 2, 2, s), QuatTerm(q, 3, 3, s))),
         RSub(QuatTerm(q, 1, 2, s), QuatTerm(q, 4, 3, s)),
         RAdd(QuatTerm(q, 1, 3, s), QuatTerm(q, 4, 2, s))>>,
       <<RAdd(QuatTerm(q, 1, 2, s), QuatTerm(q, 4, 3, s)),
         RSub(One, RAdd(QuatTerm(q, 1, 1, s), QuatTerm(q, 3, 3, s))),
         RSub(QuatTerm(q, 2, 3, s), QuatTerm(q, 4, 1, s))>>,
       <<RSub(QuatTerm(q, 1, 3, s), QuatTerm(q, 4, 2, s)),
         RAdd(QuatTerm(q, 2, 3, s), QuatTerm(q, 4, 1, s)),
         RSub(One, RAdd(QuatTerm(q, 1, 1, s), QuatTerm(q, 2, 2, s)))>> >>

RotationMatrix(q) == setRotation(q, RDiv(R(2, 1), QuatDot(q, q)))

QuatConj(a) == <<RNeg(a[1]), RNeg(a[2]), RNeg(a[3]), a[4]>>

\* a * b of two quaternions <<x, y, z, w>>
QuatMul(a, b) ==
    << RAdd(RAdd(RMul(a[4], b[1]), RMul(a[1], b[4])), RSub(RMul(a[2], b[3]), RMul(a[3], b[2]))),
       RAdd(RAdd(RMul(a[4], b[2]), RMul(a[2], b[4])), RSub(RMul(a[3], b[1]), RMul(a[1], b[3]))),
       RAdd(RAdd(RMul(a[4], b[3]), RMul(a[3], b[4])), RSub(RMul(a[1], b[2]), RMul(a[2], b[1]))),
       RSub(RMul(a[4], b[4]), RAdd(RAdd(RMul(a[1], b[1]), RMul(a[2], b[2])), RMul(a[3], b[3]))) >>

Normalized(q) == VecScale(RRecip(RSqrt(QuatDot(q, q))), q)

\* kinematics::dPose_geom(target, ref): ref^-1 * target as a pose, the
\* orientation a unit quaternion.
dPose_geom(target, ref) ==
    MatVec(Transpose(RotationMatrix(Orientation(ref))),
           VecSub(Position(target), Position(ref)))
    \o Normalized(QuatMul(QuatConj(Orientation(ref)), Orientation(target)))

\* tf::Quaternion::getAngleShortestPath(), in degrees: 2 * acos(|w|)
getAngleShortestPath(q) == RMul(R(2, 1), AcosDeg(RAbs(q[4])))

-----------------------------------------------------------------------------
(* Program state.                                                          *)

VARIABLES
    is_global_initialized,  \* global flag
    eef_target1,            \* global waypoint "eef_target1"
    eef_target2,            \* global waypoint "eef_target2"
    pc,                     \* position of the main thread
    dls_eps,                \* ROS parameter "epsilon"
    dls_lambda,             \* ROS parameter "lambda"
    current_joints,         \* current_joints.position
    kinematic_state,        \* joint positions held by the MoveIt robot state
    jacobian,               \* the Jacobian of the last tick
    jac_joints,             \* the joint positions that Jacobian was taken at
    fk_joints,              \* the joint positions the last calcFK was given
    jacb_pseudo_inv,        \* its damped pseudo-inverse
    sTwist_error,           \* the spatial twist error of the last tick
    d_theta,                \* the joint step added in the last tick
    pose_,                  \* LocalTarget: output pose
    from_,                  \* LocalTarget: interpolation source
    to_,                    \* LocalTarget: interpolation destination
    global_target_id_,      \* LocalTarget: selected waypoint
    start_time_,            \* LocalTarget: clock reading at the last reset_
    expected_duration_,     \* LocalTarget: duration of the leg [s]
    now,                    \* the clock ros::Time::now() reads, in TimeUnit
    fb,                     \* the spinner thread inside processFeedback
    fb_count,               \* feedback events delivered so far
    written,                \* history: the complete poses assigned to each waypoint
    switched,               \* history: the last updatePose called reset_
    band                    \* history: the destination whose arrival fired it

vars == <<is_global_initialized, eef_target1, eef_target2, pc, dls_eps, dls_lambda,
          current_joints, kinematic_state, jacobian, jac_joints, fk_joints,
          jacb_pseudo_inv, sTwist_error, d_theta,
          pose_, from_, to_, global_target_id_, start_time_, expected_duration_,
          now, fb, fb_count, written, switched, band>>

globalVars == <<is_global_initialized, eef_target1, eef_target2>>
loopVars == <<dls_eps, dls_lambda, current_joints, kinematic_state, jacobian,
              jac_joints, fk_joints, jacb_pseudo_inv, sTwist_error, d_theta>>
targetVars == <<pose_, from_, to_, global_target_id_, start_time_, expected_duration_>>
feedbackVars == <<fb, fb_count, written>>
historyVars == <<switched, band>>

-----------------------------------------------------------------------------
(* Bounds and input domains of the model.                                  *)

\* The clock stops advancing at MaxTime clock units.
MaxTime == 10

\* Feedback events delivered in one run.
MaxFeedback == 2

\* A tick is taken while every joint is within MaxJointSteps maximal steps
\* of zero.
MaxJointSteps == 2

\* One clock unit, in seconds.
TimeUnit == R(5, 2)

ToSec(n) == RMul(R(n, 1), TimeUnit)

\* Clock advance between two ticks, and between the clock reading of
\* reset_ and the one of the interpolation that follows it.
TickAdvance == {2, 4}
LegAdvance == {0, 1, 2, 4}
CallAdvance == {0, 2}

t1_name == "eef_target1"
t2_name == "eef_target2"
\* The markers of the server; processFeedback is the callback of both.
MarkerNames == {t1_name, t2_name}
\* The marker names a feedback message is given to processFeedback with:
\* those of the two markers and, for the branch that matches neither, one
\* of no marker.
FeedbackNames == MarkerNames \cup {"other_marker"}

QIdentity == <<Zero, Zero, Zero, One>>
QHalfTurnZ == <<Zero, Zero, One, Zero>>
QNegIdentity == <<Zero, Zero, Zero, R(-1, 1)>>

\* The end-effector pose at the all-zero joint vector (calcFK of main).
InitialEefPose == <<Zero, Zero, Zero>> \o QIdentity

\* The poses a marker is dragged to.
FeedbackPoses ==
    { <<Zero, Zero, R(1, 10)>> \o QIdentity,
      <<R(3, 100), Zero, R(4, 100)>> \o QHalfTurnZ }

\* Where a concurrent reader can see the copy of a pose cut: after the
\* first k of its components, up to the end of member position.
TearPoints == 1..3

NumJoints == 6

ZeroVector(n) == BuildSeq(LAMBDA i : Zero, n)
NaNVector(n) == BuildSeq(LAMBDA i : NaN, n)

Diagonal6(a, b) == AsDiagonal(<<a, a, a, a, a, b>>)

\* What getJacobian returns in the loop specification: a regular
\* configuration, a singular one (the last joint has no effect) and one
\* with a large gain.
LoopJacobians == { Identity(NumJoints), Diagonal6(One, Zero), Diagonal6(R(20, 1), R(20, 1)) }

\* The values of the ROS parameter "lambda" (20 when it is not set).
DefaultLambda == R(20, 1)
LoopLambdas == { Zero, One, DefaultLambda }

\* The values of the ROS parameter "epsilon" (1 when it is not set).
DefaultEps == One

\* The spatial twist errors of a finite target pose: none, 0.01 in the
\* fourth component, and a large one.
XTwist == <<Zero, Zero, Zero, R(1, 100), Zero, Zero>>
LargeTwist == <<R(-5, 1), Zero, Zero, R(5, 1), Zero, R(1, 100)>>
LoopTwists == { ZeroVector(6), XTwist, LargeTwist }

\* calculateDampedPseudoInverse_without_SVD tabulated over the inputs main
\* gives it in these specifications.
LoopSolverInputs == LoopJacobians \X {DefaultEps} \X LoopLambdas

LoopSolverTable ==
    { <<in, calculateDampedPseudoInverse_without_SVD(in[1], in[2], in[3])>> :
        in \in LoopSolverInputs }

LoopPseudoInverse(jacb, eps, lambda) ==
    (CHOOSE e \in LoopSolverTable : e[1] = <<jacb, eps, lambda>>)[2]

-----------------------------------------------------------------------------
(* class LocalTarget.                                                      *)

\* max_linear_vel [m/sec] and max_dquat_rot_degVel [deg/sec] as main reads
\* them; angles are kept in degrees on both sides of the division.
linear_vel_ == R(1, 50)
dquat_rot_vel_ == R(10, 1)

tolerance == R(1, 100)

\* isClose_ without the comparison of position.z.
isClose_ignoring_z(pose, to) ==
    /\ RLt(RAbs(RSub(pose[1], to[1])), tolerance)
    /\ RLt(RAbs(RSub(pose[2], to[2])), tolerance)
    /\ RLt(RAbs(RSub(pose[4], to[4])), tolerance)
    /\ RLt(RAbs(RSub(pose[5], to[5])), tolerance)
    /\ RLt(RAbs(RSub(pose[6], to[6])), tolerance)
    /\ RLt(RAbs(RSub(pose[7], to[7])), tolerance)

isClose_(pose, to) ==
    /\ RLt(RAbs(RSub(pose[1], to[1])), tolerance)
    /\ RLt(RAbs(RSub(pose[2], to[2])), tolerance)
    /\ RLt(RAbs(RSub(pose[3], to[3])), tolerance)
    /\ RLt(RAbs(RSub(pose[4], to[4])), tolerance)
    /\ RLt(RAbs(RSub(pose[5], to[5])), tolerance)
    /\ RLt(RAbs(RSub(pose[6], to[6])), tolerance)
    /\ RLt(RAbs(RSub(pose[7], to[7])), tolerance)

\* The fields of a LocalTarget as one record.
LocalTargetState ==
    [pose_ |-> pose_, from_ |-> from_, to_ |-> to_,
     global_target_id_ |-> global_target_id_, start_time_ |-> start_time_,
     expected_duration_ |-> expected_duration_]

position_dist(d_pose) ==
    RSqrt(RAdd(RAdd(RMul(d_pose[1], d_pose[1]), RMul(d_pose[2], d_pose[2])),
               RMul(d_pose[3], d_pose[3])))

position_time(d_pose) == RDiv(position_dist(d_pose), linear_vel_)

quat_time(d_pose) == RDiv(getAngleShortestPath(Orientation(d_pose)), dquat_rot_vel_)

\* max_time without the time due to orientation.
max_time_position_only(d_pose) == position_time(d_pose)

max_time(d_pose) == RMax(position_time(d_pose), quat_time(d_pose))

\* The assignments of reset_, to being the waypoint copied.
resetTo(self, global_target_id, to, t) ==
    [self EXCEPT !.global_target_id_ = global_target_id,
                 !.from_ = self.pose_,
                 !.to_ = to,
                 !.start_time_ = t,
                 !.expected_duration_ = max_time(dPose_geom(to, self.pose_))]

\* reset_(global_target_id) at clock reading t, the two globals holding
\* target1 and target2 at that moment.
reset_(self, global_target_id, target1, target2, t) ==
    resetTo(self, global_target_id, IF global_target_id = 1 THEN target1 ELSE target2, t)

\* if (slerp_t > 1.0) {slerp_t = 1.0;}
LimitToOne(ratio) == IF RGt(ratio, One) THEN One ELSE ratio

slerp_t(self, t) == LimitToOne(RDiv(ToSec(t - self.start_time_), self.expected_duration_))

InterpolateAt(self, ratio) ==
    [self EXCEPT !.pose_ =
        BuildSeq(LAMBDA i : RAdd(RMul(RSub(self.to_[i], self.from_[i]), ratio), self.from_[i]), 3)
        \o slerp(Orientation(self.from_), Orientation(self.to_), ratio)]

\* The interpolation of updatePose at clock reading t.
Interpolate(self, t) == InterpolateAt(self, slerp_t(self, t))

\* updatePose(): reset_ reads the clock at t_reset, the interpolation at
\* t_interp.
updatePose(self, target1, target2, t_reset, t_interp) ==
    Interpolate(IF isClose_(self.pose_, self.to_)
                THEN reset_(self, (self.global_target_id_ + 1) % 2, target1, target2, t_reset)
                ELSE self,
                t_interp)

-----------------------------------------------------------------------------
(* visualization::processFeedback, run by the AsyncSpinner thread.  The    *)
(* assignment of a geometry_msgs::Pose to a global is not atomic and is    *)
(* not synchronised with the main thread: it is two steps, the second of   *)
(* which completes the copy.                                               *)

TornCopy(old, new, k) == BuildSeq(LAMBDA i : IF i <= k THEN new[i] ELSE old[i], 7)

\* A marker sends feedback once server.applyChanges() has published it.
MarkersPublished == pc \in {"construct", "loop"}

processFeedbackBegin(marker_name, pose, k) ==
    /\ fb.pc = "idle"
    /\ fb_count < MaxFeedback
    /\ MarkersPublished
    /\ fb_count' = fb_count + 1
    /\ IF marker_name = t1_name
       THEN /\ eef_target1' = TornCopy(eef_target1, pose, k)
            /\ written' = [written EXCEPT ![1] = @ \cup {pose}]
            /\ fb' = [pc |-> "copying", marker_name |-> marker_name, pose |-> pose]
            /\ UNCHANGED eef_target2
       ELSE IF marker_name = t2_name
       THEN /\ eef_target2' = TornCopy(eef_target2, pose, k)
            /\ written' = [written EXCEPT ![2] = @ \cup {pose}]
            /\ fb' = [pc |-> "copying", marker_name |-> marker_name, pose |-> pose]
            /\ UNCHANGED eef_target1
       ELSE UNCHANGED <<eef_target1, eef_target2, written, fb>>
    /\ UNCHANGED <<is_global_initialized, pc, now>>
    /\ UNCHANGED <<loopVars, targetVars, historyVars>>

\* processFeedbackEnd also retargeting the leg under way.
processFeedbackEnd_retargeting ==
    /\ fb.pc = "copying"
    /\ IF fb.marker_name = t1_name
       THEN eef_target1' = fb.pose /\ UNCHANGED eef_target2
       ELSE eef_target2' = fb.pose /\ UNCHANGED eef_target1
    /\ to_' = fb.pose
    /\ fb' = [pc |-> "idle", marker_name |-> "", pose |-> ZeroPose]
    /\ UNCHANGED <<is_global_initialized, pc, now, fb_count, written>>
    /\ UNCHANGED <<loopVars, historyVars>>
    /\ UNCHANGED <<pose_, from_, global_target_id_, start_time_, expected_duration_>>

\* processFeedbackEnd assigning the pose to both waypoints.
processFeedbackEnd_both ==
    /\ fb.pc = "copying"
    /\ eef_target1' = fb.pose
    /\ eef_target2' = fb.pose
    /\ fb' = [pc |-> "idle", marker_name |-> "", pose |-> ZeroPose]
    /\ UNCHANGED <<is_global_initialized, pc, now, fb_count, written>>
    /\ UNCHANGED <<loopVars, targetVars, historyVars>>

processFeedbackEnd ==
    /\ fb.pc = "copying"
    /\ IF fb.marker_name = t1_name
       THEN eef_target1' = fb.pose /\ UNCHANGED eef_target2
       ELSE eef_target2' = fb.pose /\ UNCHANGED eef_target1
    /\ fb' = [pc |-> "idle", marker_name |-> "", pose |-> ZeroPose]
    /\ UNCHANGED <<is_global_initialized, pc, now, fb_count, written>>
    /\ UNCHANGED <<loopVars, targetVars, historyVars>>

-----------------------------------------------------------------------------
(* main().                                                                 *)

\* eef_target1 = eef_pose; makeRoundTripMarker(server, t1_name, ...)
MainInitTarget1 ==
    /\ pc = "init"
    /\ eef_target1' = InitialEefPose
    /\ written' = [written EXCEPT ![1] = @ \cup {InitialEefPose}]
    /\ pc' = "target2"
    /\ UNCHANGED <<is_global_initialized, eef_target2, now, fb, fb_count>>
    /\ UNCHANGED <<loopVars, targetVars, historyVars>>

\* MainInitTarget2 without the assignment to eef_target2.
MainInitTarget2_unassigned ==
    /\ pc = "target2"
    /\ pc' = "flag"
    /\ UNCHANGED <<is_global_initialized, eef_target1, eef_target2, now>>
    /\ UNCHANGED <<loopVars, targetVars, feedbackVars, historyVars>>

\* eef_target2 = eef_pose; makeRoundTripMarker(server, t2_name, ...)
MainInitTarget2 ==
    /\ pc = "target2"
    /\ eef_target2' = InitialEefPose
    /\ written' = [written EXCEPT ![2] = @ \cup {InitialEefPose}]
    /\ pc' = "flag"
    /\ UNCHANGED <<is_global_initialized, eef_target1, now, fb, fb_count>>
    /\ UNCHANGED <<loopVars, targetVars, historyVars>>

\* is_global_initialized = true;
MainSetInitialized ==
    /\ pc = "flag"
    /\ is_global_initialized' = TRUE
    /\ pc' = "apply"
    /\ UNCHANGED <<eef_target1, eef_target2, now>>
    /\ UNCHANGED <<loopVars, targetVars, feedbackVars, historyVars>>

\* server.applyChanges()
MainApplyChanges ==
    /\ pc = "apply"
    /\ pc' = "construct"
    /\ UNCHANGED <<globalVars, now>>
    /\ UNCHANGED <<loopVars, targetVars, feedbackVars, historyVars>>

\* The loop of waitForGlobalInitialization_ is left once the flag is set;
\* until then the thread sleeps.
waitForGlobalInitialization_ == is_global_initialized

\* LocalTarget local_target(eef_pose, max_linear_vel, max_dquat_rot_vel)
Construct ==
    /\ pc = "construct"
    /\ waitForGlobalInitialization_
    /\ \E self \in {reset_([LocalTargetState EXCEPT !.pose_ = InitialEefPose],
                           1, eef_target1, eef_target2, now)} :
         /\ pose_' = self.pose_
         /\ from_' = self.from_
         /\ to_' = self.to_
         /\ global_target_id_' = self.global_target_id_
         /\ start_time_' = self.start_time_
         /\ expected_duration_' = self.expected_duration_
    /\ pc' = "loop"
    /\ UNCHANGED <<globalVars, now>>
    /\ UNCHANGED <<loopVars, feedbackVars, historyVars>>

\* const double dmax = 1.0 * M_PI / 180.0, with M_PI taken as 22/7
dmax == R(11, 630)

\* Clamp with half the limit.
Clamp_half(d) ==
    IF RGt(d, RMul(R(1, 2), dmax)) THEN RMul(R(1, 2), dmax)
    ELSE IF RLt(d, RNeg(RMul(R(1, 2), dmax))) THEN RNeg(RMul(R(1, 2), dmax))
    ELSE d

\* The clamp of one component of d_theta.
Clamp(d) ==
    IF RGt(d, dmax) THEN dmax
    ELSE IF RLt(d, RNeg(dmax)) THEN RNeg(dmax)
    ELSE d

JointLimit == RMul(R(MaxJointSteps, 1), dmax)

JointsInRange ==
    \A i \in 1..Len(current_joints) :
        IsFinite(current_joints[i]) => ~RGt(RAbs(current_joints[i]), JointLimit)

\* setJointGroupPositions leaving the robot state as it was.
setJointGroupPositions_ignored(state, positions) == state

\* kinematic_state->setJointGroupPositions(joint_model_group, positions):
\* the joint positions the robot state holds afterwards.
setJointGroupPositions(state, positions) == positions

\* The body of the main loop.  jac is what getJacobian returns and twist
\* the spatial twist error of a finite target pose (both come from the
\* robot model); target is the local target as the iteration finds it,
\* t_reset and t_interp are the two clock readings of updatePose.
LoopIteration(jac, twist, target, t_reset, t_interp) ==
    /\ \E pinv \in {LoopPseudoInverse(jac, dls_eps, dls_lambda)},
          self \in {updatePose(target, eef_target1, eef_target2, t_reset, t_interp)} :
         \E error \in {IF PoseHasNaN(self.pose_) THEN NaNVector(6) ELSE twist} :
         \E solved \in {MatVec(pinv, error)} :
         \E step \in {BuildSeq(LAMBDA i : Clamp(solved[i]), Len(current_joints))} :
         \E joints \in {BuildSeq(LAMBDA i : RAdd(current_joints[i], step[i]),
                                 Len(current_joints))} :
           /\ jacobian' = jac
           /\ jac_joints' = kinematic_state
           /\ jacb_pseudo_inv' = pinv
           /\ fk_joints' = setJointGroupPositions(kinematic_state, current_joints)
           /\ pose_' = self.pose_
           /\ from_' = self.from_
           /\ to_' = self.to_
           /\ global_target_id_' = self.global_target_id_
           /\ start_time_' = self.start_time_
           /\ expected_duration_' = self.expected_duration_
           /\ sTwist_error' = error
           /\ d_theta' = step
           /\ current_joints' = joints
           /\ kinematic_state' =
                  setJointGroupPositions(
                      setJointGroupPositions(kinematic_state, current_joints), joints)
    /\ switched' = isClose_(target.pose_, target.to_)
    /\ band' = IF isClose_(target.pose_, target.to_) THEN target.to_ ELSE band
    /\ UNCHANGED <<globalVars, pc, dls_eps, dls_lambda, feedbackVars>>

\* One iteration of the main loop; dt1 is the clock advance since the last
\* tick, dt2 the advance between the two clock readings of updatePose.
Tick(jac, twist, dt1, dt2) ==
    /\ pc = "loop"
    /\ now + dt1 + dt2 <= MaxTime
    /\ JointsInRange
    /\ LoopIteration(jac, twist, LocalTargetState, now + dt1, now + dt1 + dt2)
    /\ now' = now + dt1 + dt2

-----------------------------------------------------------------------------
(* Specification Spec: main() from its first statement, with the spinner   *)
(* thread delivering marker feedback.  The robot model holds the           *)
(* end-effector on the target (zero twist error) unless the target is NaN. *)

IdleFeedback == [pc |-> "idle", marker_name |-> "", pose |-> ZeroPose]

InitCommon ==
    /\ current_joints = ZeroVector(NumJoints)
    /\ kinematic_state = ZeroVector(NumJoints)
    /\ jac_joints = ZeroVector(NumJoints)
    /\ fk_joints = ZeroVector(NumJoints)
    /\ jacb_pseudo_inv = <<>>
    /\ sTwist_error = ZeroVector(6)
    /\ d_theta = ZeroVector(NumJoints)
    /\ now = 0
    /\ fb = IdleFeedback
    /\ switched = FALSE
    /\ band = ZeroPose

Init ==
    /\ InitCommon
    /\ jacobian = <<>>
    /\ is_global_initialized = FALSE
    /\ eef_target1 = ZeroPose
    /\ eef_target2 = ZeroPose
    /\ pc = "init"
    /\ dls_eps = DefaultEps
    /\ dls_lambda = DefaultLambda
    /\ pose_ = ZeroPose
    /\ from_ = ZeroPose
    /\ to_ = ZeroPose
    /\ global_target_id_ = 0
    /\ start_time_ = 0
    /\ expected_duration_ = Zero
    /\ fb_count = 0
    /\ written = <<{}, {}>>

Feedback ==
    \E marker_name \in FeedbackNames, pose \in FeedbackPoses, k \in TearPoints :
        processFeedbackBegin(marker_name, pose, k)

LoopTick ==
    \E dt1 \in TickAdvance, dt2 \in CallAdvance :
        Tick(Identity(NumJoints), ZeroVector(6), dt1, dt2)

Next ==
    \/ MainInitTarget1
    \/ MainInitTarget2
    \/ MainSetInitialized
    \/ MainApplyChanges
    \/ Construct
    \/ LoopTick
    \/ Feedback
    \/ processFeedbackEnd

Spec == Init /\ [][Next]_vars

-----------------------------------------------------------------------------
(* Specification SpecLeg: the loop from the construction of the local      *)
(* target on, for every pair of waypoints the markers were dragged to      *)
(* before it; no feedback arrives afterwards.  It exercises reset_ and     *)
(* updatePose over legs of every kind.                                     *)

\* The waypoint poses: the initial pose, one 10 cm away, one within the
\* tolerance of it, one turned by 180 degrees, and the initial pose with
\* the antipodal quaternion.
LegPoses ==
    { InitialEefPose,
      <<Zero, Zero, R(1, 10)>> \o QIdentity,
      <<Zero, Zero, R(1, 200)>> \o QIdentity,
      <<R(3, 100), Zero, R(4, 100)>> \o QHalfTurnZ,
      <<Zero, Zero, Zero>> \o QNegIdentity }

\* The state main is in when the loop is entered with the waypoints at
\* target1 and target2.
InitLoop(target1, target2) ==
    /\ InitCommon
    /\ is_global_initialized = TRUE
    /\ eef_target1 = target1
    /\ eef_target2 = target2
    /\ pc = "loop"
    /\ jacobian = <<>>
    /\ dls_eps = DefaultEps
    /\ \E self \in {reset_([pose_ |-> InitialEefPose, from_ |-> ZeroPose, to_ |-> ZeroPose,
                           global_target_id_ |-> 0, start_time_ |-> 0,
                           expected_duration_ |-> Zero],
                          1, target1, target2, 0)} :
         /\ pose_ = self.pose_
         /\ from_ = self.from_
         /\ to_ = self.to_
         /\ global_target_id_ = self.global_target_id_
         /\ start_time_ = self.start_time_
         /\ expected_duration_ = self.expected_duration_
    /\ fb_count = MaxFeedback
    /\ written = <<{InitialEefPose, target1}, {InitialEefPose, target2}>>

InitLeg ==
    /\ \E target1 \in LegPoses, target2 \in LegPoses : InitLoop(target1, target2)
    /\ dls_lambda = DefaultLambda

LegTick ==
    \E dt1 \in LegAdvance, dt2 \in CallAdvance :
        Tick(Identity(NumJoints), ZeroVector(6), dt1, dt2)

NextLeg == LegTick

SpecLeg == InitLeg /\ [][NextLeg]_vars

-----------------------------------------------------------------------------
(* Specification SpecLoop: the loop with the waypoints where main leaves   *)
(* them, over the Jacobians and twist errors of LoopJacobians and          *)
(* LoopTwists and the damping factors of LoopLambdas.                      *)

InitRobot ==
    /\ InitLoop(InitialEefPose, InitialEefPose)
    /\ dls_lambda \in LoopLambdas

RobotTick ==
    \E jac \in LoopJacobians, twist \in LoopTwists, dt2 \in CallAdvance :
        Tick(jac, twist, 2, dt2)

NextLoop == RobotTick

SpecLoop == InitRobot /\ [][NextLoop]_vars

-----------------------------------------------------------------------------
(* Specification SpecRoundTrip: the loop running for ever, the waypoints   *)
(* where the markers were left before it.  The clock has no bound here:    *)
(* reset_ and updatePose read it only through the time elapsed since the   *)
(* start of the leg, so each iteration counts the clock from that start,   *)
(* and the elapsed time is kept up to MaxTime units, which is past the end *)
(* of every leg (slerp_t is 1 from the end of the leg on).  Every          *)
(* iteration finds the clock advanced, and iterations keep occurring.      *)

\* The rotation by 240 degrees about (1,1,1): its dot product with the
\* identity quaternion is -1/2.
QNegativeDot == <<R(1, 2), R(1, 2), R(1, 2), R(-1, 2)>>

RoundTripPoses ==
    { InitialEefPose,
      <<Zero, Zero, R(1, 10)>> \o QIdentity,
      <<R(3, 100), Zero, R(4, 100)>> \o QHalfTurnZ,
      <<Zero, Zero, Zero>> \o QNegIdentity,
      <<Zero, Zero, Zero>> \o QNegativeDot }

\* The clock advance between two iterations of the loop.
RoundTripAdvance == {1, 2, 4}

\* The time since the start of the leg, in clock units.
ElapsedUnits == IF now - start_time_ > MaxTime THEN MaxTime ELSE now - start_time_

InitRoundTrip ==
    /\ \E target1 \in RoundTripPoses, target2 \in RoundTripPoses : InitLoop(target1, target2)
    /\ dls_lambda = DefaultLambda

RoundTripTick ==
    \E dt1 \in RoundTripAdvance, dt2 \in CallAdvance :
        /\ pc = "loop"
        /\ LoopIteration(Identity(NumJoints), ZeroVector(6),
                         [LocalTargetState EXCEPT !.start_time_ = 0],
                         ElapsedUnits + dt1, ElapsedUnits + dt1 + dt2)
        /\ now' = ElapsedUnits + dt1 + dt2

NextRoundTrip == RoundTripTick

\* while (ros::ok()) with rate.sleep(): another iteration always follows,
\* and it reads a clock that has advanced.  Every step being an iteration,
\* this is fairness of the steps that read a different clock value.
ClockAdvances == pc = "loop" /\ now' \in 0..(2 * MaxTime)

SpecRoundTrip == InitRoundTrip /\ [][NextRoundTrip]_vars /\ WF_now(ClockAdvances)

-----------------------------------------------------------------------------
(* Specification SpecSolver: the two pseudo-inverse routines as pure       *)
(* functions of a Jacobian, a threshold and a damping factor.              *)

SolverJacobians == { Compose(svd) : svd \in Decompositions }
SolverEps == { R(-1, 1), Zero, R(3, 4), R(3, 1) }
SolverLambdas == { Zero, R(1, 2), One }

InitSolver ==
    /\ InitCommon
    /\ is_global_initialized = FALSE
    /\ eef_target1 = ZeroPose
    /\ eef_target2 = ZeroPose
    /\ pc = "solver"
    /\ jacobian \in SolverJacobians
    /\ dls_eps \in SolverEps
    /\ dls_lambda \in SolverLambdas
    /\ pose_ = ZeroPose
    /\ from_ = ZeroPose
    /\ to_ = ZeroPose
    /\ global_target_id_ = 0
    /\ start_time_ = 0
    /\ expected_duration_ = Zero
    /\ fb_count = 0
    /\ written = <<{}, {}>>

\* kinematics::calculateDampedPseudoInverse_without_SVD(jacobian, jacb_pseudo_inv, ...)
SolveWithoutSVD ==
    /\ pc = "solver"
    /\ jacb_pseudo_inv' =
           calculateDampedPseudoInverse_without_SVD(jacobian, dls_eps, dls_lambda)
    /\ pc' = "without_SVD"
    /\ UNCHANGED <<globalVars, dls_eps, dls_lambda, current_joints, kinematic_state,
                   jacobian, jac_joints, fk_joints, sTwist_error, d_theta>>
    /\ UNCHANGED <<targetVars, now, feedbackVars, historyVars>>

\* kinematics::calculateDampedPseudoInverse_with_SVD(jacobian, jacb_pseudo_inv, ...)
SolveWithSVD ==
    /\ pc = "solver"
    /\ jacb_pseudo_inv' =
           calculateDampedPseudoInverse_with_SVD(jacobian, dls_eps, dls_lambda)
    /\ pc' = "with_SVD"
    /\ UNCHANGED <<globalVars, dls_eps, dls_lambda, current_joints, kinematic_state,
                   jacobian, jac_joints, fk_joints, sTwist_error, d_theta>>
    /\ UNCHANGED <<targetVars, now, feedbackVars, historyVars>>

NextSolver == SolveWithoutSVD \/ SolveWithSVD

SpecSolver == InitSolver /\ [][NextSolver]_vars

-----------------------------------------------------------------------------
(* Properties of the local target (Spec).                                  *)

\* A step of the main loop, as opposed to one of the spinner thread.
TickStep == pc = "loop" /\ fb' = fb /\ fb_count' = fb_count

FeedbackStep == fb' # fb \/ fb_count' # fb_count

\* Every one of the seven components differs by less than 0.01.
WithinTolerance(a, b) == \A i \in 1..7 : RLt(RAbs(RSub(a[i], b[i])), R(1, 100))

LegFields == <<global_target_id_, from_, to_, start_time_, expected_duration_>>

SelectedWaypoint == IF global_target_id_ = 1 THEN eef_target1 ELSE eef_target2

\* C1: an update changes the selected waypoint from i to 1-i exactly when,
\* at its start, the output pose is within 0.01 of the destination in all
\* seven components; every other update leaves the selected waypoint, the
\* source, the destination, the start time and the duration unchanged.
C1_SwitchExactlyWhenClose ==
    [][TickStep =>
          /\ (global_target_id_' = 1 - global_target_id_) <=> WithinTolerance(pose_, to_)
          /\ ~WithinTolerance(pose_, to_) => UNCHANGED LegFields]_vars

\* A leg with a duration was entered by a switch back to waypoint 1.
C1_Witness ==
    /\ pc = "loop"
    /\ switched
    /\ global_target_id_ = 1
    /\ RGt(expected_duration_, Zero)

\* C2: a feedback update changes neither the destination, the source, the
\* start time nor the duration of the leg under way; the destination only
\* changes in a step of the main thread that resets the leg, and then it
\* is the value the newly selected waypoint holds at that instant.
C2_FeedbackDoesNotRetarget ==
    [][/\ FeedbackStep => UNCHANGED LegFields
       /\ LegFields' # LegFields =>
             /\ pc \in {"construct", "loop"}
             /\ ~FeedbackStep
             /\ pc = "loop" => WithinTolerance(pose_, to_)
             /\ to_' = SelectedWaypoint'
             /\ UNCHANGED <<eef_target1, eef_target2>>]_vars

\* Mid-leg, the selected waypoint has been dragged away from the
\* destination of the leg.
C2_Witness ==
    /\ pc = "loop"
    /\ fb.pc = "idle"
    /\ now > start_time_
    /\ RGt(expected_duration_, ToSec(now - start_time_))
    /\ SelectedWaypoint # to_
    /\ to_ \in FeedbackPoses

\* C3 (as stated): a switch is not followed by another switch on the next
\* update while the output pose is still within the band of the
\* destination whose arrival fired the first one.
C3_NoOscillation ==
    [][(TickStep /\ switched /\ WithinTolerance(pose_, band)) => ~switched']_vars

\* C4 (as stated): the destination a reset copied is one complete pose
\* that was assigned to the selected waypoint.
C4_NoTornDestination ==
    pc = "loop" => to_ \in written[IF global_target_id_ = 1 THEN 1 ELSE 2]

\* C5: the local target is constructed, and with it the first reset reads
\* a waypoint, only once the flag is set and both waypoints have been
\* assigned; until then it has no output.
C5_NoOutputBeforeWaypoints ==
    /\ pc \in {"construct", "loop"} =>
          /\ is_global_initialized
          /\ InitialEefPose \in written[1]
          /\ InitialEefPose \in written[2]
    /\ pc \notin {"loop"} =>
          /\ pose_ = ZeroPose
          /\ to_ = ZeroPose
          /\ jacobian = <<>>

\* The first tick has published a target read from the waypoints.
C5_Witness ==
    /\ pc = "loop"
    /\ jacobian # <<>>
    /\ to_ = InitialEefPose
    /\ fb_count = 0

-----------------------------------------------------------------------------
(* Properties of the clamp and of one tick (SpecLoop).                     *)

\* C6 (as stated): every component of the step added to the joints is at
\* most dmax in absolute value.
C6_StepWithinLimit ==
    \A i \in 1..Len(d_theta) : RGe(dmax, RAbs(d_theta[i]))

\* C10 (amended): with the identity Jacobian and the twist error
\* (0,0,0,0.01,0,0) the solved step is 0.01/(1+lambda^2) on the fourth
\* joint and zero elsewhere, it is below dmax and so not clamped, and the
\* joints advance by it.
C10_SolvedStep == <<Zero, Zero, Zero,
                    RDiv(R(1, 100), RAdd(One, RMul(dls_lambda, dls_lambda))),
                    Zero, Zero>>

-----------------------------------------------------------------------------
(* Properties of one leg (SpecLeg).                                        *)

\* C7 (as stated): an update at elapsed = 0 outputs the source, one at
\* elapsed >= duration outputs the destination.
C7_EndpointsExact ==
    (pc = "loop" /\ jacobian # <<>>) =>
        /\ now = start_time_ => pose_ = from_
        /\ RGe(ToSec(now - start_time_), expected_duration_) => pose_ = to_

-----------------------------------------------------------------------------
(* Properties of the pseudo-inverse routines (SpecSolver).                 *)

SingularValues(jacb) == JacobiSVD(jacb).Sv

RankDeficient(jacb) == \E i \in 1..Len(SingularValues(jacb)) : SingularValues(jacb)[i] = Zero

\* The matrix the normal-equations routine inverts.
NormalMatrix(jacb, lambda) ==
    IF Rows(jacb) >= Cols(jacb)
    THEN MatAdd(MatMul(Transpose(jacb), jacb),
                ScalarMul(RMul(lambda, lambda), Identity(Cols(jacb))))
    ELSE MatAdd(MatMul(jacb, Transpose(jacb)),
                ScalarMul(RMul(lambda, lambda), Identity(Rows(jacb))))

NonSingular(A) == MatFinite(Inverse(A)) /\ MatMul(Inverse(A), A) = Identity(Rows(A))

Solved == pc \in {"without_SVD", "with_SVD"}

NoDivisionByZero ==
    /\ MatFinite(jacb_pseudo_inv)
    /\ pc = "without_SVD" => NonSingular(NormalMatrix(jacobian, dls_lambda))
    /\ pc = "with_SVD" => inv_Sv(Zero, dls_eps, dls_lambda) = Zero

\* C8 (amended): for a rank-deficient Jacobian, lambda > 0 and eps >= 0,
\* both routines return a finite matrix: the normal matrix is
\* non-singular and the reciprocal taken for sigma = 0 is 0, not 1/0.
C8_RankDeficientFinite ==
    (Solved /\ RankDeficient(jacobian) /\ RGt(dls_lambda, Zero) /\ RGe(dls_eps, Zero))
        => NoDivisionByZero

\* The SVD routine has run on a rank-deficient, non-zero Jacobian with
\* eps = 0.
C8_Witness ==
    /\ pc = "with_SVD"
    /\ SingularValues(jacobian) = <<One, Zero>>
    /\ dls_eps = Zero
    /\ dls_lambda = One

\* C8 (as stated): the same for every eps.
C8_AsStated ==
    (Solved /\ RankDeficient(jacobian) /\ RGt(dls_lambda, Zero)) => NoDivisionByZero

\* The four Penrose conditions: P is the exact pseudo-inverse of J.
Penrose(J, P) ==
    /\ MatMul(MatMul(J, P), J) = J
    /\ MatMul(MatMul(P, J), P) = P
    /\ Transpose(MatMul(J, P)) = MatMul(J, P)
    /\ Transpose(MatMul(P, J)) = MatMul(P, J)

\* (J^T J + lambda^2 I)^-1 J^T, the damped least-squares operator.
DampedLeastSquares(jacb, lambda) ==
    calculateDampedPseudoInverse_without_SVD(jacb, Zero, lambda)

AllAbove(jacb, eps) ==
    \A i \in 1..Len(SingularValues(jacb)) : RGt(SingularValues(jacb)[i], eps)

NoneAbove(jacb, eps) ==
    \A i \in 1..Len(SingularValues(jacb)) : ~RGt(SingularValues(jacb)[i], eps)

\* C9 (amended): with eps = 0 the SVD routine takes 1/sigma for every
\* sigma > 0 and 0 for sigma = 0, so for lambda # 0 its result is the exact
\* pseudo-inverse, whatever lambda is; it is the damped least-squares
\* operator when no singular value exceeds eps; and with lambda = 0 it is
\* the exact pseudo-inverse of a Jacobian of full rank for every eps >= 0.
C9_ThresholdZeroIsExact ==
    pc = "with_SVD" =>
        /\ (dls_eps = Zero /\ dls_lambda # Zero) => Penrose(jacobian, jacb_pseudo_inv)
        /\ (NoneAbove(jacobian, dls_eps) /\ dls_lambda # Zero) =>
              jacb_pseudo_inv = DampedLeastSquares(jacobian, dls_lambda)
        /\ (dls_lambda = Zero /\ RGe(dls_eps, Zero) /\ AllAbove(jacobian, Zero)) =>
              Penrose(jacobian, jacb_pseudo_inv)

\* With eps = 0 and lambda = 1 the result is not the damped operator.
C9_Witness ==
    /\ pc = "with_SVD"
    /\ dls_eps = Zero
    /\ dls_lambda = One
    /\ SingularValues(jacobian) = <<One, R(1, 2)>>
    /\ jacb_pseudo_inv # DampedLeastSquares(jacobian, dls_lambda)

\* C9 (as stated): with eps = 0 the result is that of the damped
\* least-squares operator.
C9_AsStated ==
    (pc = "with_SVD" /\ dls_eps = Zero) =>
        jacb_pseudo_inv = DampedLeastSquares(jacobian, dls_lambda)

-----------------------------------------------------------------------------
(* Properties of the duration and of the interpolation fraction (SpecLeg). *)

\* A tick of the loop has run, so pose_ is the output of an update.
Updated == pc = "loop" /\ jacobian # <<>>

\* The time since the reset of the leg, at the last reading of the clock.
Elapsed == ToSec(now - start_time_)

\* Euclidean distance between the positions of two poses.
LinearDistance(a, b) ==
    RSqrt(RAdd(RAdd(RMul(RSub(b[1], a[1]), RSub(b[1], a[1])),
                    RMul(RSub(b[2], a[2]), RSub(b[2], a[2]))),
               RMul(RSub(b[3], a[3]), RSub(b[3], a[3]))))

\* Geodesic angle between the orientations of two poses, in degrees.
AngularDistance(a, b) ==
    RMul(R(2, 1), HalfAngleShortestPath(Orientation(a), Orientation(b)))

LegDuration(a, b) ==
    RMax(RDiv(LinearDistance(a, b), R(1, 50)), RDiv(AngularDistance(a, b), R(10, 1)))

MinWithOne(x) == IF RLt(x, One) THEN x ELSE One

LinearInterpolation(a, b, f) ==
    <<RAdd(a[1], RMul(RSub(b[1], a[1]), f)),
      RAdd(a[2], RMul(RSub(b[2], a[2]), f)),
      RAdd(a[3], RMul(RSub(b[3], a[3]), f))>>

Between(x, a, b) ==
    \/ RGe(x, a) /\ RGe(b, x)
    \/ RGe(x, b) /\ RGe(a, x)

\* In the closed interval [0, 1]; no NaN is.
InUnitInterval(f) == IsFinite(f) /\ RGe(f, Zero) /\ RGe(One, f)

\* C12 (as stated): the fraction an update interpolates with is a number
\* in [0, 1], also on a leg of duration 0 and at elapsed 0, and every
\* component of the output position lies between the source's and the
\* destination's.
C12_FractionWellDefined ==
    Updated =>
        /\ InUnitInterval(slerp_t(LocalTargetState, now))
        /\ \A i \in 1..3 : Between(pose_[i], from_[i], to_[i])

-----------------------------------------------------------------------------
(* Properties of the round trip (SpecRoundTrip).                           *)

\* C13 (as stated): with the waypoints at rest, the clock advancing and
\* iterations occurring for ever, resets happen infinitely often and each
\* of the two waypoints is selected by a reset infinitely often, whatever
\* the orientations of the waypoints are.
C13_EveryLegEnds ==
    /\ []<>(switched /\ global_target_id_ = 0)
    /\ []<>(switched /\ global_target_id_ = 1)

-----------------------------------------------------------------------------
(* Properties of the joint vector handed from tick to tick (SpecLoop).     *)

\* C14: in every tick getJacobian and calcFK read the same joint vector,
\* the one the previous tick integrated (all zero on the first tick), and
\* the joint vector a tick ends with is the one the robot state holds when
\* the next tick starts.
C14_SameJointVector ==
    [][TickStep =>
          /\ jac_joints' = fk_joints'
          /\ jac_joints' = current_joints
          /\ jacobian = <<>> => jac_joints' = ZeroVector(NumJoints)
          /\ jacobian # <<>> =>
                \A i \in 1..NumJoints : jac_joints'[i] = RAdd(fk_joints[i], d_theta[i])
          /\ kinematic_state' = current_joints'
          /\ kinematic_state = current_joints]_vars

\* A tick has read, for both, the joints an earlier tick moved, and has
\* moved them again.
C14_Witness ==
    /\ Updated
    /\ jac_joints # ZeroVector(NumJoints)
    /\ jac_joints = fk_joints
    /\ current_joints # fk_joints
    /\ kinematic_state = current_joints

-----------------------------------------------------------------------------
(* Properties of the waypoint pair (Spec).                                 *)

\* The marker name of the feedback event a step of the spinner thread
\* belongs to: the one the copy under way is for, "" when no copy is.
EventName == IF fb'.pc = "copying" THEN fb'.marker_name ELSE fb.marker_name

\* C15: once the flag is set, no step of the main thread (tick, update,
\* reset) writes a waypoint; a step of the feedback handler leaves every
\* waypoint but the one its event names unchanged, both when it names
\* neither, and the event ends with the named waypoint holding its pose.
C15_WaypointsReadOnly ==
    [][/\ (is_global_initialized /\ ~FeedbackStep) =>
             UNCHANGED <<eef_target1, eef_target2>>
       /\ FeedbackStep =>
             /\ EventName # t1_name => eef_target1' = eef_target1
             /\ EventName # t2_name => eef_target2' = eef_target2
             /\ (fb.pc = "copying" /\ fb.marker_name = t1_name) => eef_target1' = fb.pose
             /\ (fb.pc = "copying" /\ fb.marker_name = t2_name) => eef_target2' = fb.pose]_vars

\* The loop has run, one marker has been dragged and the other waypoint
\* is where main left it.
C15_Witness ==
    /\ Updated
    /\ fb.pc = "idle"
    /\ fb_count = MaxFeedback
    /\ eef_target1 \in FeedbackPoses
    /\ eef_target2 = InitialEefPose
    /\ written[2] = {InitialEefPose}
    /\ global_target_id_ = 0

=============================================================================
